---- MODULE Spec2Model ----
(***************************************************************************)
(* The conversation response generator of server/services/gemini.js:       *)
(* generateResponse with its helpers getAI, trimChatHistory,               *)
(* convertToGeminiHistory and buildPersonalizedPrompt, driven by a caller  *)
(* and by a provider that answers every call with a text or an error.      *)
(*                                                                         *)
(* A JavaScript function runs without interruption up to its next await,   *)
(* so one action is the code between two awaits: the entry of an attempt   *)
(* up to `await chat.sendMessage`, the provider's answer up to the return, *)
(* the throw or `await new Promise(setTimeout)`, and the timer's firing up *)
(* to the next attempt's `await chat.sendMessage`.                         *)
(*                                                                         *)
(* Texts are modelled as sets of the pieces they are made of (an error     *)
(* message) or sequences of pieces (the system instruction);               *)
(* String.includes asks whether a piece occurs.  Provider errors are Error *)
(* objects with a string message and optional status / statusCode fields.  *)
(***************************************************************************)
EXTENDS Integers, Sequences, FiniteSets, TLC

(***************************************************************************)
(* Program constants                                                       *)
(***************************************************************************)
MAX_HISTORY_MESSAGES == 30

MAX_RETRIES == 3

MODELS == <<"gemini-2.5-flash", "gemini-2.0-flash">>

SYSTEM_PROMPT == "SYSTEM_PROMPT"

(***************************************************************************)
(* Bounds of the model                                                     *)
(***************************************************************************)
\* histories of 0..MaxShort messages are explored
MaxShort == 2

\* histories of up to MAX_HISTORY_MESSAGES + MaxOver messages are explored
MaxOver == 2

\* a provider error message holds at most MaxFragments of the pieces below
MaxFragments == 2

\* a profile holds at most MaxTags interests
MaxTags == 2

\* a persona is at most MaxPersona characters long
MaxPersona == 3

\* POST /api/chat/:id/message requests handled at the same time
NumReqs == 2

\* generateResponse invocations running at the same time
NumInvs == 2

\* requests on the other routes of /api/chat and on DELETE /api/auth/account
\* handled at the same time
NumOps == 2

\* forgot-password and reset-password requests handled at the same time
NumAuths == 2

\* exchanges (a user message and its answer) stored in the chat beforehand
MaxPriorExchanges == 1

(***************************************************************************)
(* Inputs: histories, user profiles, provider answers                      *)
(***************************************************************************)
Roles == {"user", "bot"}

OtherRole(r) == IF r = "user" THEN "bot" ELSE "user"

\* A history of n messages whose roles alternate and whose last role is r;
\* the content of the i-th message is i, so every message is distinguishable.
History(n, r) ==
    [i \in 1..n |-> [role    |-> IF (n - i) % 2 = 0 THEN r ELSE OtherRole(r),
                     content |-> i]]

HistoryLengths ==
    (0..MaxShort) \cup ((MAX_HISTORY_MESSAGES - 1)..(MAX_HISTORY_MESSAGES + MaxOver))

Histories == {History(n, r) : n \in HistoryLengths, r \in Roles}

\* req.user or null.  persona is a sequence of characters / words.
NoUser == [isNull |-> TRUE, interests |-> <<>>, persona |-> <<>>]

Users ==
    { NoUser,
      [isNull |-> FALSE, interests |-> <<"graphs", "OS">>,
       persona |-> <<"Be", " ", "terse.">>] }

\* Profiles for buildPersonalizedPrompt: every list of tags and every persona
\* within the bounds; an absent field is the empty list / the empty string.
Tags == {"graphs", "OS"}

PersonaChars == {" ", "a", "b"}

SeqsUpTo(S, n) == UNION {[1..k -> S] : k \in 0..n}

PromptUsers ==
    {NoUser} \cup
    [isNull : {FALSE}, interests : SeqsUpTo(Tags, MaxTags),
     persona : SeqsUpTo(PersonaChars, MaxPersona)]

\* response.text of a successful provider call
Texts == {"text A", "text B"}

\* The substrings the catch block looks for, and a piece matching none.
RetrySignals == {"503", "429", "overloaded", "UNAVAILABLE", "rate limit"}

TaxonomySignals == {"API key", "API_KEY", "quota", "safety", "SAFETY", "not found", "404"}

Fragments == RetrySignals \cup TaxonomySignals \cup {"other text"}

ErrorMessages == {m \in SUBSET Fragments : Cardinality(m) <= MaxFragments}

\* 0 stands for an absent (undefined) field, falsy like undefined under ||
Statuses == {0, 429, 500, 503}

StatusCodes == {0, 503}

ProviderErrors ==
    [status : Statuses, statusCode : StatusCodes, message : ErrorMessages]

\* Errors thrown by the function's own code inside the try block
NoKeyError ==
    [status |-> 0, statusCode |-> 0,
     message |-> {"GEMINI_", "API_KEY", " environment variable is not set"}]

NoMessagesError ==
    [status |-> 0, statusCode |-> 0, message |-> {"No messages to process"}]

LastNotUserError ==
    [status |-> 0, statusCode |-> 0, message |-> {"Last message must be from user"}]

(***************************************************************************)
(* Pure helpers                                                            *)
(***************************************************************************)
Min(a, b) == IF a <= b THEN a ELSE b

RECURSIVE Pow(_, _)
Pow(b, e) == IF e = 0 THEN 1 ELSE b * Pow(b, e - 1)

\* Array.prototype.slice(from) on a 1-based sequence: drops the first k elements
DropFirst(s, k) == [i \in 1..(Len(s) - k) |-> s[i + k]]

\* String.prototype.includes
Includes(message, piece) == piece \in message

\* Array.prototype.join(sep), as the sequence of the pieces of the result
RECURSIVE Join(_, _)
Join(tags, sep) ==
    IF Len(tags) = 0 THEN <<>>
    ELSE IF Len(tags) = 1 THEN <<tags[1]>>
    ELSE <<tags[1], sep>> \o Join(Tail(tags), sep)

\* String.prototype.trim on a sequence of characters
RECURSIVE TrimLeft(_)
TrimLeft(s) == IF Len(s) > 0 /\ s[1] = " " THEN TrimLeft(Tail(s)) ELSE s

RECURSIVE TrimRight(_)
TrimRight(s) ==
    IF Len(s) > 0 /\ s[Len(s)] = " " THEN TrimRight(SubSeq(s, 1, Len(s) - 1)) ELSE s

Trim(s) == TrimRight(TrimLeft(s))

\* mutant: the custom instructions are appended before the interests
buildPersonalizedPromptPersonaFirst(user) ==
    LET base == <<SYSTEM_PROMPT>>
        withPersona ==
            IF ~user.isNull /\ Len(Trim(user.persona)) > 0
            THEN base \o <<"# USER'S CUSTOM INSTRUCTIONS: ">> \o user.persona
            ELSE base
    IN  IF ~user.isNull /\ Len(user.interests) > 0
        THEN withPersona \o <<"# USER'S INTERESTS: This user is particularly interested in: ">>
                         \o Join(user.interests, ", ")
                         \o <<". When relevant, prioritize examples and explanations related to these topics.">>
        ELSE withPersona

buildPersonalizedPrompt(user) ==
    LET base == <<SYSTEM_PROMPT>>
        withInterests ==
            IF ~user.isNull /\ Len(user.interests) > 0
            THEN base \o <<"# USER'S INTERESTS: This user is particularly interested in: ">>
                      \o Join(user.interests, ", ")
                      \o <<". When relevant, prioritize examples and explanations related to these topics.">>
            ELSE base
    IN  IF ~user.isNull /\ Len(Trim(user.persona)) > 0
        THEN withInterests \o <<"# USER'S CUSTOM INSTRUCTIONS: ">> \o user.persona
        ELSE withInterests

\* mutant: keeps the oldest MAX_HISTORY_MESSAGES messages, slice(0, N) for slice(-N)
trimChatHistoryOldest(messages) ==
    IF Len(messages) <= MAX_HISTORY_MESSAGES
    THEN messages
    ELSE SubSeq(messages, 1, MAX_HISTORY_MESSAGES)

trimChatHistory(messages) ==
    IF Len(messages) <= MAX_HISTORY_MESSAGES
    THEN messages
    ELSE DropFirst(messages, Len(messages) - MAX_HISTORY_MESSAGES)

\* mutant: the stored role is passed on as it is
convertToGeminiHistoryRolesKept(messages) ==
    [i \in 1..Len(messages) |->
        [role  |-> messages[i].role,
         parts |-> <<messages[i].content>>]]

\* msg.role === 'user' ? 'user' : 'model', parts: [{ text: msg.content }]
convertToGeminiHistory(messages) ==
    [i \in 1..Len(messages) |->
        [role  |-> IF messages[i].role = "user" THEN "user" ELSE "model",
         parts |-> <<messages[i].content>>]]

\* mutant: the attempt number is not halved, one attempt per model
modelIndexNotHalved(retryCount) == Min(retryCount, Len(MODELS) - 1)

\* selectedModel of attempt retryCount (MODELS is 1-based here)
modelIndex(retryCount) == Min(retryCount \div 2, Len(MODELS) - 1)

selectedModel(retryCount) == MODELS[modelIndex(retryCount) + 1]

\* const errorStatus = error.status || error.statusCode
errorStatus(error) == IF error.status # 0 THEN error.status ELSE error.statusCode

\* mutant: every 5xx status is taken for a transient failure
isRetryableAny5xx(error) ==
    \/ errorStatus(error) >= 500
    \/ errorStatus(error) = 429
    \/ Includes(error.message, "503")
    \/ Includes(error.message, "429")
    \/ Includes(error.message, "overloaded")
    \/ Includes(error.message, "UNAVAILABLE")
    \/ Includes(error.message, "rate limit")

isRetryable(error) ==
    \/ errorStatus(error) = 503
    \/ errorStatus(error) = 429
    \/ Includes(error.message, "503")
    \/ Includes(error.message, "429")
    \/ Includes(error.message, "overloaded")
    \/ Includes(error.message, "UNAVAILABLE")
    \/ Includes(error.message, "rate limit")

\* mutant: linear instead of exponential backoff
backoffDelayLinear(retryCount) == (retryCount + 1) * 1000

\* delay in milliseconds before the retry that follows attempt retryCount
backoffDelay(retryCount) == Pow(2, retryCount) * 1000

\* The Error thrown to the caller for an error that is not (or no longer) retried
Thrown(text, raw) == [kind |-> "error", text |-> text, raw |-> raw]

ConfigurationError ==
    Thrown("Invalid or missing Gemini API key. Please check your configuration.", {})

QuotaExceeded == Thrown("API quota exceeded. Please try again later.", {})

ContentBlocked ==
    Thrown("Response blocked due to safety settings. Please rephrase your question.", {})

ModelUnavailable ==
    Thrown("Model not found. Please check the model name configuration.", {})

ProviderBusy ==
    Thrown("AI service is currently busy. Please try again in a moment.", {})

FailedToGenerate(message) == Thrown("Failed to generate response: ", message)

\* mutant: the test for 'quota' comes before the test for the API key
translateErrorQuotaFirst(error) ==
    IF Includes(error.message, "quota")
    THEN QuotaExceeded
    ELSE IF Includes(error.message, "API key") \/ Includes(error.message, "API_KEY")
    THEN ConfigurationError
    ELSE IF Includes(error.message, "safety") \/ Includes(error.message, "SAFETY")
    THEN ContentBlocked
    ELSE IF Includes(error.message, "not found") \/ Includes(error.message, "404")
    THEN ModelUnavailable
    ELSE IF error.status = 503 \/ Includes(error.message, "overloaded")
    THEN ProviderBusy
    ELSE FailedToGenerate(error.message)

\* the chain of tests at the end of the catch block
translateError(error) ==
    IF Includes(error.message, "API key") \/ Includes(error.message, "API_KEY")
    THEN ConfigurationError
    ELSE IF Includes(error.message, "quota")
    THEN QuotaExceeded
    ELSE IF Includes(error.message, "safety") \/ Includes(error.message, "SAFETY")
    THEN ContentBlocked
    ELSE IF Includes(error.message, "not found") \/ Includes(error.message, "404")
    THEN ModelUnavailable
    ELSE IF error.status = 503 \/ Includes(error.message, "overloaded")
    THEN ProviderBusy
    ELSE FailedToGenerate(error.message)

Returned(text) == [kind |-> "text", text |-> text, raw |-> {}]

(***************************************************************************)
(* State                                                                   *)
(***************************************************************************)
VARIABLES
    apiKey,      \* process.env.GEMINI_API_KEY is set
    ai,          \* _ai is not null: the client has been constructed
    pc,          \* "idle", "sending", "backoff" or "done"
    messages,    \* argument messages of the running invocation
    user,        \* argument user of the running invocation
    retryCount,  \* argument retryCount of the innermost running call
    caught,      \* the error bound by the catch block of the attempt that failed last
    recurring,   \* {e} while the provider answers every call of this invocation
                 \* with the same error e (a persisting fault), {} otherwise
    log,         \* provider calls and backoff waits of this invocation, in order
    delivered,   \* what the top-level caller has received from this invocation
    given,       \* the caller's history as it was when it made the call
    constructions, \* number of times new GoogleGenAI(...) has run in this process
    prompt,      \* result of buildPersonalizedPrompt(user), once it has been built
    invs,        \* the invocations that run interleaved with each other
    store,       \* the Message collection, in order of timestamp
    chats,       \* the Chat collection: chat id -> document
    reqs,        \* the POST /api/chat/:id/message requests in progress
    users,       \* the User collection: user id -> document
    ops,         \* the other requests on /api/chat and DELETE /api/auth/account
    auths        \* the forgot-password and reset-password requests

\* state of the single invocation followed in detail
genVars ==
    <<apiKey, ai, pc, messages, user, retryCount, caught, recurring, log, delivered,
      given, constructions>>

\* state that generateResponse has no access to, or that belongs to the other views
otherVars == <<prompt, invs, store, chats, reqs, users, ops, auths>>

vars == <<genVars, otherVars>>

Init ==
    /\ apiKey \in BOOLEAN
    /\ ai = FALSE
    /\ pc = "idle"
    /\ messages = <<>>
    /\ user = NoUser
    /\ retryCount = 0
    /\ caught = {}
    /\ recurring = {}
    /\ log = <<>>
    /\ delivered = <<>>
    /\ given = <<>>
    /\ constructions = 0
    /\ prompt = <<>>
    /\ invs = <<>>
    /\ store = <<>>
    /\ chats = <<>>
    /\ reqs = <<>>
    /\ users = <<>>
    /\ ops = <<>>
    /\ auths = <<>>

(***************************************************************************)
(* The catch block, entered with the events logged so far                  *)
(***************************************************************************)
\* the provider's answer { text } to the call of attempt rc
ReplyEvent(rc, text) == [type |-> "reply", attempt |-> rc, text |-> text]

WaitEvent(rc) == [type |-> "wait", attempt |-> rc, ms |-> backoffDelay(rc)]

\* mutant: off by one, a retry is still granted after attempt MAX_RETRIES
shouldRetryOnceMore(error, rc) == isRetryable(error) /\ rc <= MAX_RETRIES

shouldRetry(error, rc) == isRetryable(error) /\ rc < MAX_RETRIES

\* the promise of the top-level call settles: the caller receives outcome
Deliver(outcome) == delivered' = Append(delivered, outcome)

\* mutant: the error of a retried attempt is thrown to the caller as well
CatchLeaking(error, rc, events) ==
    /\ caught' = {error}
    /\ retryCount' = rc
    /\ Deliver(translateError(error))
    /\ IF shouldRetry(error, rc)
       THEN /\ pc' = "backoff"
            /\ log' = Append(events, WaitEvent(rc))
       ELSE /\ pc' = "done"
            /\ log' = events

Catch(error, rc, events) ==
    /\ caught' = {error}
    /\ retryCount' = rc
    /\ IF shouldRetry(error, rc)
       THEN /\ pc' = "backoff"
            /\ log' = Append(events, WaitEvent(rc))
            /\ UNCHANGED delivered
       ELSE /\ pc' = "done"
            /\ log' = events
            /\ Deliver(translateError(error))

(***************************************************************************)
(* The try block up to `await chat.sendMessage`                            *)
(***************************************************************************)
\* mutant: the last message is not excluded from the prior turns
CallEventWholeHistory(msgs, u, rc) ==
    LET trimmedMessages == trimChatHistory(msgs)
        lastMessage == trimmedMessages[Len(trimmedMessages)]
    IN  [type              |-> "call",
         attempt           |-> rc,
         model             |-> selectedModel(rc),
         history           |-> convertToGeminiHistory(trimmedMessages),
         systemInstruction |-> buildPersonalizedPrompt(u),
         message           |-> lastMessage.content]

CallEvent(msgs, u, rc) ==
    LET trimmedMessages == trimChatHistory(msgs)
        lastMessage == trimmedMessages[Len(trimmedMessages)]
    IN  [type              |-> "call",
         attempt           |-> rc,
         model             |-> selectedModel(rc),
         history           |-> convertToGeminiHistory(
                                   SubSeq(trimmedMessages, 1, Len(trimmedMessages) - 1)),
         systemInstruction |-> buildPersonalizedPrompt(u),
         message           |-> lastMessage.content]

\* mutant: the client is constructed without looking at GEMINI_API_KEY
getAINeverThrows == FALSE

\* getAI() throws
getAIThrows == ~ai /\ ~apiKey

\* mutant: getAI() without the test of _ai, a new client on every use
constructsAlways == TRUE

\* getAI() runs new GoogleGenAI(...): only while _ai is null
constructs == ~ai

\* mutant: the array is cut in place, splice() for slice()
argumentAfterTrimInPlace(msgs) == trimChatHistory(msgs)

\* the array passed as messages after trimChatHistory has run on it:
\* slice() returns a new array and leaves its receiver as it was
argumentAfterTrim(msgs) == msgs

\* mutant: the role of the last message is not checked
historyErrorEmptyOnly(trimmedMessages) ==
    IF Len(trimmedMessages) = 0 THEN {NoMessagesError} ELSE {}

\* the error thrown by the checks of the trimmed history, if any
historyError(trimmedMessages) ==
    IF Len(trimmedMessages) = 0
    THEN {NoMessagesError}
    ELSE IF trimmedMessages[Len(trimmedMessages)].role # "user"
    THEN {LastNotUserError}
    ELSE {}

Try(msgs, u, rc, events) ==
    LET trimmedMessages == trimChatHistory(msgs)
    IN  IF getAIThrows
        THEN /\ UNCHANGED <<ai, constructions>>
             /\ Catch(NoKeyError, rc, events)
        ELSE /\ ai' = TRUE
             /\ constructions' = IF constructs THEN constructions + 1 ELSE constructions
             /\ IF historyError(trimmedMessages) # {}
                THEN \E error \in historyError(trimmedMessages) : Catch(error, rc, events)
                ELSE /\ pc' = "sending"
                     /\ retryCount' = rc
                     /\ log' = Append(events, CallEvent(msgs, u, rc))
                     /\ caught' = {}
                     /\ UNCHANGED delivered

(***************************************************************************)
(* Actions                                                                 *)
(***************************************************************************)
\* The caller invokes generateResponse(messages, user): retryCount defaults to 0
Invoke ==
    /\ pc = "idle"
    /\ \E msgs \in Histories, u \in Users :
          /\ given' = msgs
          /\ messages' = argumentAfterTrim(msgs)
          /\ user' = u
          /\ Try(msgs, u, 0, <<>>)
    /\ UNCHANGED <<apiKey, recurring>>
    /\ UNCHANGED otherVars

\* chat.sendMessage resolves: return response.text
ProviderSuccess ==
    /\ pc = "sending"
    /\ recurring = {}
    /\ pc' = "done"
    /\ \E text \in Texts :
          /\ log' = Append(log, ReplyEvent(retryCount, text))
          /\ Deliver(Returned(text))
    /\ UNCHANGED <<apiKey, ai, messages, user, retryCount, caught, recurring>>
    /\ UNCHANGED <<given, constructions>>
    /\ UNCHANGED otherVars

\* chat.sendMessage rejects with an error and the catch block runs.  persists: the
\* fault begins with the first call and outlasts the invocation.
ProviderError ==
    /\ pc = "sending"
    /\ recurring = {}
    /\ \E error \in ProviderErrors, persists \in BOOLEAN :
          /\ persists => retryCount = 0
          /\ recurring' = IF persists THEN {error} ELSE {}
          /\ Catch(error, retryCount, log)
    /\ UNCHANGED <<apiKey, ai, messages, user>>
    /\ UNCHANGED <<given, constructions>>
    /\ UNCHANGED otherVars

\* chat.sendMessage rejects again with the error of the persisting fault
ProviderErrorAgain ==
    /\ pc = "sending"
    /\ recurring # {}
    /\ \E error \in recurring : Catch(error, retryCount, log)
    /\ UNCHANGED <<apiKey, ai, messages, user, recurring>>
    /\ UNCHANGED <<given, constructions>>
    /\ UNCHANGED otherVars

\* the backoff timer fires: return generateResponse(messages, user, retryCount + 1)
\* mutant: the recursive call leaves out the user argument
BackoffElapsedWithoutUser ==
    /\ pc = "backoff"
    /\ Try(messages, NoUser, retryCount + 1, log)
    /\ messages' = argumentAfterTrim(messages)
    /\ UNCHANGED <<apiKey, user, recurring, given>>
    /\ UNCHANGED otherVars

BackoffElapsed ==
    /\ pc = "backoff"
    /\ Try(messages, user, retryCount + 1, log)
    /\ messages' = argumentAfterTrim(messages)
    /\ UNCHANGED <<apiKey, user, recurring, given>>
    /\ UNCHANGED otherVars

\* the caller has its outcome; the invocation's frames are gone
CallerResumes ==
    /\ pc = "done"
    /\ pc' = "idle"
    /\ messages' = <<>>
    /\ user' = NoUser
    /\ retryCount' = 0
    /\ caught' = {}
    /\ recurring' = {}
    /\ log' = <<>>
    /\ delivered' = <<>>
    /\ given' = <<>>
    /\ UNCHANGED <<apiKey, ai, constructions>>
    /\ UNCHANGED otherVars

Next ==
    \/ Invoke
    \/ ProviderSuccess
    \/ ProviderError
    \/ ProviderErrorAgain
    \/ BackoffElapsed
    \/ CallerResumes

Spec == Init /\ [][Next]_vars

(***************************************************************************)
(* buildPersonalizedPrompt on its own: a profile is drawn and the prompt   *)
(* is built from it                                                        *)
(***************************************************************************)
InitPrompt ==
    /\ apiKey = TRUE
    /\ ai = FALSE
    /\ pc = "idle"
    /\ messages = <<>>
    /\ user \in PromptUsers
    /\ retryCount = 0
    /\ caught = {}
    /\ recurring = {}
    /\ log = <<>>
    /\ delivered = <<>>
    /\ given = <<>>
    /\ constructions = 0
    /\ prompt = <<>>
    /\ invs = <<>>
    /\ store = <<>>
    /\ chats = <<>>
    /\ reqs = <<>>
    /\ users = <<>>
    /\ ops = <<>>
    /\ auths = <<>>

BuildPrompt ==
    /\ prompt = <<>>
    /\ prompt' = buildPersonalizedPrompt(user)
    /\ UNCHANGED <<genVars, invs, store, chats, reqs, users, ops, auths>>

NextPrompt == BuildPrompt

SpecPrompt == InitPrompt /\ [][NextPrompt]_vars

(***************************************************************************)
(* Views of the log used by the properties                                 *)
(***************************************************************************)
IsCall(ev) == ev.type = "call"

IsWait(ev) == ev.type = "wait"

Calls == SelectSeq(log, IsCall)

Waits == SelectSeq(log, IsWait)

\* the catch block has run for an error the provider gave to attempt retryCount
ProviderErrorCaught(error) ==
    /\ pc \in {"backoff", "done"}
    /\ caught = {error}
    /\ Len(Calls) = retryCount + 1

\* the same provider error has answered attempts 0, 1, 2 and 3
RecurredOnAllAttempts(error) ==
    /\ recurring = {error}
    /\ pc = "done"
    /\ retryCount = 3

\* the retryable signals as the specification lists them
HasRetrySignal(error) ==
    \/ error.status \in {503, 429}
    \/ error.message \cap {"503", "429", "overloaded", "UNAVAILABLE", "rate limit"} # {}

ReportsQuota(error) == "quota" \in error.message

ReportsSafety(error) == error.message \cap {"safety", "SAFETY"} # {}

ReportsMissingModel(error) == error.message \cap {"not found", "404"} # {}

ReportsApiKey(error) == error.message \cap {"API key", "API_KEY"} # {}

(***************************************************************************)
(* POST /api/chat/:id/message (server/routes/chat.js): NumReqs requests on *)
(* chat 1, each a sequence of awaited steps that interleave with the steps *)
(* of the others.  generateResponse is called when Message.find resolves   *)
(* and is taken here by its outcome alone.                                 *)
(***************************************************************************)
Reqs == 1..NumReqs

\* user 1 owns chat 1
UserIds == {1, 2}

TheChat == 1

\* req.body.content of request r when it is given; "" is a missing or empty one
ContentOf(r) == "question " \o ToString(r)

\* the body of a response: its message or error text, with the text of the
\* provider's error appended to it when there is one
Body(text, raw) == [text |-> text, raw |-> raw]

\* the messages of k earlier exchanges of the chat
RECURSIVE PriorMessages(_)
PriorMessages(k) ==
    IF k = 0 THEN <<>>
    ELSE PriorMessages(k - 1) \o
         << [id |-> 2 * k - 1, chatId |-> TheChat, role |-> "user",
             content |-> "earlier question " \o ToString(k)],
            [id |-> 2 * k, chatId |-> TheChat, role |-> "bot",
             content |-> "earlier answer " \o ToString(k)] >>

NewRequest(uid, content) ==
    [pc |-> "findChat", userId |-> uid, content |-> content, userMessage |-> 0,
     existingMessages |-> <<>>, aiResponse |-> "", botMessage |-> 0,
     status |-> 0, body |-> Body("", {})]

InitChat ==
    /\ apiKey \in BOOLEAN
    /\ ai = FALSE
    /\ pc = "idle"
    /\ messages = <<>>
    /\ user = NoUser
    /\ retryCount = 0
    /\ caught = {}
    /\ recurring = {}
    /\ log = <<>>
    /\ delivered = <<>>
    /\ given = <<>>
    /\ constructions = 0
    /\ prompt = <<>>
    /\ invs = <<>>
    /\ \E k \in 0..MaxPriorExchanges : store = PriorMessages(k)
    /\ chats = [c \in {TheChat} |-> [userId |-> 1, title |-> "New Chat"]]
    /\ \E uid \in [Reqs -> UserIds], hasContent \in [Reqs -> BOOLEAN] :
          reqs = [r \in Reqs |->
                     NewRequest(uid[r], IF hasContent[r] THEN ContentOf(r) ELSE "")]
    /\ users = <<>>
    /\ ops = <<>>
    /\ auths = <<>>

\* the provider errors a generation may end with, among others
ChatProviderErrors ==
    { [status |-> 503, statusCode |-> 0, message |-> {"overloaded"}],
      [status |-> 0, statusCode |-> 0, message |-> {"other text"}] }

\* what generateResponse(history, req.user) can return or throw
generateOutcomes(history) ==
    IF getAIThrows
    THEN {translateError(NoKeyError)}
    ELSE IF historyError(trimChatHistory(history)) # {}
    THEN {translateError(error) : error \in historyError(trimChatHistory(history))}
    ELSE {Returned(text) : text \in Texts}
             \cup {translateError(error) : error \in ChatProviderErrors}

\* Message.find({ chatId }).sort({ timestamp: 1 })
MessagesOfChat(chatId) == SelectSeq(store, LAMBDA m : m.chatId = chatId)

\* the _id given to the next document of the Message collection: one that no
\* document has and no request holds
NextMessageId ==
    LET taken == {0} \cup {store[i].id : i \in 1..Len(store)}
                     \cup {reqs[r].userMessage : r \in Reqs}
                     \cup {reqs[r].botMessage : r \in Reqs}
    IN  1 + CHOOSE id \in taken : \A other \in taken : other <= id

Respond(r, status, body) ==
    reqs' = [reqs EXCEPT ![r].pc = "done", ![r].status = status, ![r].body = body]

\* Chat.findOne({ _id, userId }) resolves; the content is looked at
ReqFindChat ==
    /\ \E r \in Reqs :
          /\ reqs[r].pc = "findChat"
          /\ IF TheChat \notin DOMAIN chats \/ chats[TheChat].userId # reqs[r].userId
             THEN Respond(r, 404, Body("Chat not found", {}))
             ELSE IF reqs[r].content = ""
             THEN Respond(r, 400, Body("Message content is required", {}))
             ELSE reqs' = [reqs EXCEPT ![r].pc = "create"]
    /\ UNCHANGED <<genVars, prompt, invs, users, ops, auths, store, chats>>

\* Message.create({ chatId, role: 'user', content }) resolves
ReqSaveUser ==
    /\ \E r \in Reqs :
          /\ reqs[r].pc = "create"
          /\ store' = Append(store, [id |-> NextMessageId, chatId |-> TheChat,
                                     role |-> "user", content |-> reqs[r].content])
          /\ reqs' = [reqs EXCEPT ![r].pc = "find", ![r].userMessage = NextMessageId]
    /\ UNCHANGED <<genVars, prompt, invs, users, ops, auths, chats>>

\* Message.find(...).sort(...) resolves and generateResponse is called with it
ReqFind ==
    /\ \E r \in Reqs :
          /\ reqs[r].pc = "find"
          /\ reqs' = [reqs EXCEPT ![r].pc = "generating",
                                  ![r].existingMessages = MessagesOfChat(TheChat)]
    /\ UNCHANGED <<genVars, prompt, invs, users, ops, auths, store, chats>>

\* mutant: an error of generateResponse is taken for its answer
generationAlwaysSucceeds(outcome) == TRUE

\* await generateResponse(...) yields a value; otherwise it throws into the catch
generationSucceeded(outcome) == outcome.kind = "text"

\* mutant: the catch answers as the other routes do, with a fixed text
MessageOfServerError(outcome) == Body("Server error", {})

\* error.message of a thrown outcome
MessageOf(outcome) == Body(outcome.text, outcome.raw)

\* generateResponse returns or throws
ReqGenerated ==
    /\ \E r \in Reqs :
          /\ reqs[r].pc = "generating"
          /\ \E outcome \in generateOutcomes(reqs[r].existingMessages) :
                IF generationSucceeded(outcome)
                THEN reqs' = [reqs EXCEPT ![r].pc = "saveBot",
                                          ![r].aiResponse = outcome.text]
                ELSE Respond(r, 500, MessageOf(outcome))
    /\ ai' = (ai \/ ~getAIThrows)
    /\ constructions' = IF ~getAIThrows /\ constructs THEN constructions + 1
                                                      ELSE constructions
    /\ UNCHANGED <<apiKey, pc, messages, user, retryCount, caught, recurring, log,
                   delivered, given>>
    /\ UNCHANGED <<prompt, invs, store, chats, users, ops, auths>>

\* Message.create({ chatId, role: 'bot', content: aiResponse }) resolves
ReqSaveBot ==
    /\ \E r \in Reqs :
          /\ reqs[r].pc = "saveBot"
          /\ store' = Append(store, [id |-> NextMessageId, chatId |-> TheChat,
                                     role |-> "bot", content |-> reqs[r].aiResponse])
          /\ reqs' = [reqs EXCEPT ![r].pc = "saveChat", ![r].botMessage = NextMessageId]
    /\ UNCHANGED <<genVars, prompt, invs, users, ops, auths, chats>>

\* content.slice(0, 50) + (content.length > 50 ? '...' : ''): the contents of
\* the model are shorter than 50 characters
TitleFrom(content) == content

\* chat.save() resolves and the response is sent.  A chat deleted in the
\* meantime is not created again: save() updates nothing and, depending on the
\* version of mongoose, resolves or rejects with DocumentNotFoundError.
ReqSaveChat ==
    /\ \E r \in Reqs :
          /\ reqs[r].pc = "saveChat"
          /\ IF TheChat \in DOMAIN chats
             THEN /\ chats' = IF Len(reqs[r].existingMessages) <= 1
                              THEN [chats EXCEPT
                                       ![TheChat].title = TitleFrom(reqs[r].content)]
                              ELSE chats
                  /\ Respond(r, 200, Body("userMessage, botMessage, chatTitle", {}))
             ELSE /\ chats' = chats
                  /\ \/ Respond(r, 200, Body("userMessage, botMessage, chatTitle", {}))
                     \/ Respond(r, 500, Body("No document found for query", {}))
    /\ UNCHANGED <<genVars, prompt, invs, users, ops, auths, store>>

NextChat ==
    \/ ReqFindChat
    \/ ReqSaveUser
    \/ ReqFind
    \/ ReqGenerated
    \/ ReqSaveBot
    \/ ReqSaveChat

SpecChat == InitChat /\ [][NextChat]_vars

(***************************************************************************)
(* Interleaved invocations of generateResponse: NumInvs callers, each      *)
(* invoking again after its outcome.  The steps of one invocation are the  *)
(* stretches of code between its awaits; _ai and GEMINI_API_KEY are shared *)
(* by all of them, every other name is local to its invocation.            *)
(***************************************************************************)
Invs == 1..NumInvs

ConcHistories == {History(0, "user"), History(1, "user"), History(2, "bot")}

ConcProviderErrors ==
    { [status |-> 503, statusCode |-> 0, message |-> {"overloaded"}],
      [status |-> 0, statusCode |-> 0, message |-> {"other text"}] }

ConcTexts == {"text A"}

\* previous: how the caller's earlier invocation ended ("none" before the first)
\* suspended: the invocations that have been in one backoff delay ever since
\*            this one was invoked
IdleInvocation(previous) ==
    [pc |-> "idle", messages |-> <<>>, retryCount |-> 0, calls |-> <<>>,
     replies |-> 0, waits |-> <<>>, outcome |-> <<>>, previous |-> previous,
     suspended |-> {}]

InitConc ==
    /\ apiKey \in BOOLEAN
    /\ ai = FALSE
    /\ pc = "idle"
    /\ messages = <<>>
    /\ user = NoUser
    /\ retryCount = 0
    /\ caught = {}
    /\ recurring = {}
    /\ log = <<>>
    /\ delivered = <<>>
    /\ given = <<>>
    /\ constructions = 0
    /\ prompt = <<>>
    /\ invs = [n \in Invs |-> IdleInvocation("none")]
    /\ store = <<>>
    /\ chats = <<>>
    /\ reqs = <<>>
    /\ users = <<>>
    /\ ops = <<>>
    /\ auths = <<>>

\* mutant: the attempt number is kept in a variable of the module
initialRetryCountShared(n) ==
    CHOOSE rc \in 0..MAX_RETRIES :
        /\ \E k \in Invs : invs[k].retryCount = rc
        /\ \A k \in Invs : invs[k].retryCount <= rc

\* the default of the parameter retryCount, used by every top-level call
initialRetryCount(n) == 0

\* mutant: the delay is a busy wait, nothing else runs until it is over
heldUpByBusyWait(n) == \E k \in Invs \ {n} : invs[k].pc = "backoff"

\* await new Promise(resolve => setTimeout(resolve, delay)) gives the event
\* loop back: the steps of invocation n wait for no delay of another one
heldUp(n) == FALSE

\* the catch block of an invocation
ConcCatch(inv, error, rc) ==
    IF shouldRetry(error, rc)
    THEN [inv EXCEPT !.pc = "backoff", !.retryCount = rc,
                     !.waits = Append(@, backoffDelay(rc))]
    ELSE [inv EXCEPT !.pc = "done", !.retryCount = rc,
                     !.outcome = <<translateError(error)>>]

\* the try block of an invocation up to await chat.sendMessage
ConcTry(inv, rc) ==
    IF getAIThrows
    THEN {ConcCatch(inv, NoKeyError, rc)}
    ELSE IF historyError(trimChatHistory(inv.messages)) # {}
    THEN {ConcCatch(inv, error, rc) : error \in historyError(trimChatHistory(inv.messages))}
    ELSE {[inv EXCEPT !.pc = "sending", !.retryCount = rc,
                      !.calls = Append(@, [attempt |-> rc, model |-> selectedModel(rc)])]}

\* what getAI() does to _ai
ConcGetAI ==
    /\ ai' = (ai \/ ~getAIThrows)
    /\ constructions' = IF ~getAIThrows /\ constructs THEN constructions + 1
                                                      ELSE constructions

ConcFrame ==
    UNCHANGED <<apiKey, pc, messages, user, retryCount, caught, recurring, log,
                delivered, given, prompt, store, chats, reqs, users, ops, auths>>

ConcInvokeOf(n) ==
    /\ invs[n].pc = "idle"
    /\ ~heldUp(n)
    /\ \E msgs \in ConcHistories :
          \E inv \in ConcTry([invs[n] EXCEPT !.messages = msgs,
                                  !.suspended = {k \in Invs \ {n} : invs[k].pc = "backoff"}],
                             initialRetryCount(n)) :
              invs' = [invs EXCEPT ![n] = inv]
    /\ ConcGetAI
    /\ ConcFrame

ConcInvoke == \E n \in Invs : ConcInvokeOf(n)

ConcProviderSuccessOf(n) ==
    /\ invs[n].pc = "sending"
    /\ ~heldUp(n)
    /\ \E text \in ConcTexts :
          invs' = [invs EXCEPT ![n].pc = "done", ![n].replies = @ + 1,
                               ![n].outcome = <<Returned(text)>>]
    /\ UNCHANGED <<ai, constructions>>
    /\ ConcFrame

ConcProviderSuccess == \E n \in Invs : ConcProviderSuccessOf(n)

ConcProviderErrorOf(n) ==
    /\ invs[n].pc = "sending"
    /\ ~heldUp(n)
    /\ \E error \in ConcProviderErrors :
          invs' = [invs EXCEPT ![n] = ConcCatch([invs[n] EXCEPT !.replies = @ + 1],
                                                error, invs[n].retryCount)]
    /\ UNCHANGED <<ai, constructions>>
    /\ ConcFrame

ConcProviderError == \E n \in Invs : ConcProviderErrorOf(n)

\* the timer of invocation n fires: generateResponse(messages, user, retryCount + 1)
ConcBackoffElapsedOf(n) ==
    /\ invs[n].pc = "backoff"
    /\ \E inv \in ConcTry(invs[n], invs[n].retryCount + 1) :
          invs' = [k \in Invs |->
                      IF k = n THEN inv
                      ELSE [invs[k] EXCEPT !.suspended = @ \ {n}]]
    /\ ConcGetAI
    /\ ConcFrame

ConcBackoffElapsed == \E n \in Invs : ConcBackoffElapsedOf(n)

\* how an invocation that is over is remembered by its caller
Ending(inv) ==
    IF inv.outcome[1].kind = "text" THEN "text"
    ELSE IF Len(inv.calls) = MAX_RETRIES + 1 THEN "exhausted"
    ELSE "error"

ConcCallerResumesOf(n) ==
    /\ invs[n].pc = "done"
    /\ ~heldUp(n)
    /\ invs' = [invs EXCEPT ![n] = IdleInvocation(Ending(invs[n]))]
    /\ UNCHANGED <<ai, constructions>>
    /\ ConcFrame

ConcCallerResumes == \E n \in Invs : ConcCallerResumesOf(n)

NextConc ==
    \/ ConcInvoke
    \/ ConcProviderSuccess
    \/ ConcProviderError
    \/ ConcBackoffElapsed
    \/ ConcCallerResumes

SpecConc == InitConc /\ [][NextConc]_vars

(***************************************************************************)
(* The routes of /api/chat beside POST /:id/message, and DELETE            *)
(* /api/auth/account: NumOps requests, each a sequence of awaited steps,   *)
(* interleaved with each other and with one POST /api/chat/1/message.      *)
(* Chat c belongs to user c.  The requests have passed `protect`.          *)
(***************************************************************************)
Ops == 1..NumOps

ChatIds == {1, 2}

Owner(c) == c

OpKinds == {"list", "get", "put", "delete", "account"}

\* disclosed: the chats whose document or messages the response carries
\* found: the chats read by the first query of DELETE /account
NewOp(kind, uid, c) ==
    [kind |-> kind, userId |-> uid, chatId |-> c, pc |-> "start", status |-> 0,
     found |-> {}, disclosed |-> {}]

\* a request of the model that is never issued
NotIssued == [NewRequest(1, "") EXCEPT !.pc = "done"]

\* the messages stored at the start: MaxPriorExchanges exchanges of chat 1 and
\* one message of chat 2
InitialStore ==
    PriorMessages(MaxPriorExchanges)
        \o << [id |-> 2 * MaxPriorExchanges + 1, chatId |-> 2, role |-> "user",
               content |-> "question of user 2"] >>

InitRoutes ==
    /\ apiKey \in BOOLEAN
    /\ ai = FALSE
    /\ pc = "idle"
    /\ messages = <<>>
    /\ user = NoUser
    /\ retryCount = 0
    /\ caught = {}
    /\ recurring = {}
    /\ log = <<>>
    /\ delivered = <<>>
    /\ given = <<>>
    /\ constructions = 0
    /\ prompt = <<>>
    /\ invs = <<>>
    /\ store = InitialStore
    /\ chats = [c \in ChatIds |-> [userId |-> Owner(c), title |-> "New Chat"]]
    /\ \E uid \in UserIds :
          reqs = [r \in Reqs |-> IF r = 1 THEN NewRequest(uid, ContentOf(r))
                                          ELSE NotIssued]
    /\ users = [uid \in UserIds |->
                    [resetPasswordToken |-> "", resetPasswordExpire |-> "",
                     password |-> "old password"]]
    /\ \E kind \in [Ops -> OpKinds], uid \in [Ops -> UserIds] :
          ops = [o \in Ops |-> NewOp(kind[o], uid[o], TheChat)]
    /\ auths = <<>>

\* mutant: the query leaves out userId
ownedByAnyone(c, uid) == c \in DOMAIN chats

\* the filter { _id: req.params.id, userId: req.user._id } matches a chat
owned(c, uid) == c \in DOMAIN chats /\ chats[c].userId = uid

ChatsOf(uid) == {c \in DOMAIN chats : chats[c].userId = uid}

OpResponds(o, status, disclosed) ==
    ops' = [ops EXCEPT ![o].pc = "done", ![o].status = status,
                       ![o].disclosed = disclosed]

OpMoves(o, to) == ops' = [ops EXCEPT ![o].pc = to]

OpFrame == UNCHANGED <<genVars, prompt, invs, reqs, users, auths>>

\* GET /api/chat
OpList ==
    /\ \E o \in Ops :
          /\ ops[o].kind = "list" /\ ops[o].pc = "start"
          /\ OpResponds(o, 200, ChatsOf(ops[o].userId))
    /\ UNCHANGED <<store, chats>>
    /\ OpFrame

\* GET /api/chat/:id, Chat.findOne resolves
OpGetFind ==
    /\ \E o \in Ops :
          /\ ops[o].kind = "get" /\ ops[o].pc = "start"
          /\ IF owned(ops[o].chatId, ops[o].userId)
             THEN OpMoves(o, "messages")
             ELSE OpResponds(o, 404, {})
    /\ UNCHANGED <<store, chats>>
    /\ OpFrame

\* GET /api/chat/:id, Message.find resolves
OpGetMessages ==
    /\ \E o \in Ops :
          /\ ops[o].kind = "get" /\ ops[o].pc = "messages"
          /\ OpResponds(o, 200, {ops[o].chatId})
    /\ UNCHANGED <<store, chats>>
    /\ OpFrame

\* PUT /api/chat/:id, Chat.findOneAndUpdate resolves
OpPut ==
    /\ \E o \in Ops :
          /\ ops[o].kind = "put" /\ ops[o].pc = "start"
          /\ IF owned(ops[o].chatId, ops[o].userId)
             THEN /\ chats' = [chats EXCEPT ![ops[o].chatId].title = "renamed"]
                  /\ OpResponds(o, 200, {ops[o].chatId})
             ELSE /\ chats' = chats
                  /\ OpResponds(o, 404, {})
    /\ UNCHANGED store
    /\ OpFrame

\* DELETE /api/chat/:id, Chat.findOne resolves
OpDeleteFind ==
    /\ \E o \in Ops :
          /\ ops[o].kind = "delete" /\ ops[o].pc = "start"
          /\ IF owned(ops[o].chatId, ops[o].userId)
             THEN OpMoves(o, "deleteMessages")
             ELSE OpResponds(o, 404, {})
    /\ UNCHANGED <<store, chats>>
    /\ OpFrame

\* Message.deleteMany({ chatId: { $in: ids } })
WithoutMessagesOf(ids) == SelectSeq(store, LAMBDA m : m.chatId \notin ids)

\* the Chat collection without the chats ids
WithoutChats(ids) == [c \in DOMAIN chats \ ids |-> chats[c]]

\* DELETE /api/chat/:id, Message.deleteMany resolves
OpDeleteMessages ==
    /\ \E o \in Ops :
          /\ ops[o].kind = "delete" /\ ops[o].pc = "deleteMessages"
          /\ store' = WithoutMessagesOf({ops[o].chatId})
          /\ OpMoves(o, "deleteChat")
    /\ UNCHANGED chats
    /\ OpFrame

\* DELETE /api/chat/:id, chat.deleteOne resolves
OpDeleteChat ==
    /\ \E o \in Ops :
          /\ ops[o].kind = "delete" /\ ops[o].pc = "deleteChat"
          /\ chats' = WithoutChats({ops[o].chatId})
          /\ OpResponds(o, 200, {})
    /\ UNCHANGED store
    /\ OpFrame

\* DELETE /api/auth/account, Chat.find({ userId }) resolves
OpAccountFind ==
    /\ \E o \in Ops :
          /\ ops[o].kind = "account" /\ ops[o].pc = "start"
          /\ ops' = [ops EXCEPT ![o].pc = "deleteMessages",
                                ![o].found = ChatsOf(ops[o].userId)]
    /\ UNCHANGED <<store, chats>>
    /\ OpFrame

\* DELETE /api/auth/account, Message.deleteMany resolves
OpAccountDeleteMessages ==
    /\ \E o \in Ops :
          /\ ops[o].kind = "account" /\ ops[o].pc = "deleteMessages"
          /\ store' = WithoutMessagesOf(ops[o].found)
          /\ OpMoves(o, "deleteChats")
    /\ UNCHANGED chats
    /\ OpFrame

\* DELETE /api/auth/account, Chat.deleteMany({ userId }) resolves
OpAccountDeleteChats ==
    /\ \E o \in Ops :
          /\ ops[o].kind = "account" /\ ops[o].pc = "deleteChats"
          /\ chats' = WithoutChats(ChatsOf(ops[o].userId))
          /\ OpMoves(o, "deleteUser")
    /\ UNCHANGED store
    /\ OpFrame

\* DELETE /api/auth/account, User.findByIdAndDelete resolves
OpAccountDeleteUser ==
    /\ \E o \in Ops :
          /\ ops[o].kind = "account" /\ ops[o].pc = "deleteUser"
          /\ users' = [uid \in DOMAIN users \ {ops[o].userId} |-> users[uid]]
          /\ OpResponds(o, 200, {})
    /\ UNCHANGED <<store, chats>>
    /\ UNCHANGED <<genVars, prompt, invs, reqs, auths>>

NextRoutes ==
    \/ ReqFindChat
    \/ ReqSaveUser
    \/ ReqFind
    \/ ReqGenerated
    \/ ReqSaveBot
    \/ ReqSaveChat
    \/ OpList
    \/ OpGetFind
    \/ OpGetMessages
    \/ OpPut
    \/ OpDeleteFind
    \/ OpDeleteMessages
    \/ OpDeleteChat
    \/ OpAccountFind
    \/ OpAccountDeleteMessages
    \/ OpAccountDeleteChats
    \/ OpAccountDeleteUser

SpecRoutes == InitRoutes /\ [][NextRoutes]_vars

(***************************************************************************)
(* POST /api/auth/forgot-password and POST /api/auth/reset-password/:token *)
(* (routes/auth.js): NumAuths requests whose awaited steps interleave.     *)
(* A user document holds the sha256 of its reset token, or "" for          *)
(* undefined, and resetPasswordExpire as "" (undefined), "future" or       *)
(* "past" relative to Date.now().                                          *)
(***************************************************************************)
Auths == 1..NumAuths

\* the token made for forgot-password request a; token 0 was issued earlier
TokenOf(a) == "token " \o ToString(a)

Tokens == {TokenOf(a) : a \in 0..NumAuths}

\* crypto.createHash('sha256').update(token).digest('hex')
Hash(token) == "sha256(" \o token \o ")"

EmailOf(uid) == "user" \o ToString(uid) \o "@example.org"

\* req.body.email: "" is a missing one
Emails == {"", EmailOf(1), "nobody@example.org"}

\* req.body.password: "" is a missing one
Passwords == {"", "short", "new password"}

NewForgot(email) ==
    [kind |-> "forgot", email |-> email, token |-> "", password |-> "",
     pc |-> "start", doc |-> 0, status |-> 0, body |-> ""]

NewReset(token, password) ==
    [kind |-> "reset", email |-> "", token |-> token, password |-> password,
     pc |-> "start", doc |-> 0, status |-> 0, body |-> ""]

NoResetToken ==
    [resetPasswordToken |-> "", resetPasswordExpire |-> "", password |-> "old password"]

InitAuth ==
    /\ apiKey = TRUE
    /\ ai = FALSE
    /\ pc = "idle"
    /\ messages = <<>>
    /\ user = NoUser
    /\ retryCount = 0
    /\ caught = {}
    /\ recurring = {}
    /\ log = <<>>
    /\ delivered = <<>>
    /\ given = <<>>
    /\ constructions = 0
    /\ prompt = <<>>
    /\ invs = <<>>
    /\ store = <<>>
    /\ chats = <<>>
    /\ reqs = <<>>
    /\ \E issued \in BOOLEAN :
          users = [uid \in UserIds |->
                      IF issued /\ uid = 1
                      THEN [NoResetToken EXCEPT !.resetPasswordToken = Hash(TokenOf(0)),
                                                !.resetPasswordExpire = "future"]
                      ELSE NoResetToken]
    /\ ops = <<>>
    /\ auths \in [Auths -> {NewForgot(email) : email \in Emails}
                              \cup {NewReset(token, password) :
                                       token \in Tokens, password \in Passwords}]

AuthAnswers(a, status, body) ==
    auths' = [auths EXCEPT ![a].pc = "done", ![a].status = status, ![a].body = body]

AuthFrame == UNCHANGED <<genVars, prompt, invs, store, chats, reqs, ops>>

\* User.findOne({ email })
UsersWithEmail(email) == {uid \in DOMAIN users : EmailOf(uid) = email}

\* POST /forgot-password: User.findOne resolves, the token is made and
\* user.save is called
ForgotFind ==
    /\ \E a \in Auths :
          /\ auths[a].kind = "forgot" /\ auths[a].pc = "start"
          /\ IF auths[a].email = ""
             THEN AuthAnswers(a, 400, "Please provide an email address")
             ELSE IF UsersWithEmail(auths[a].email) = {}
             THEN AuthAnswers(a, 200, "If an account with that email exists, a password reset link has been sent.")
             ELSE \E uid \in UsersWithEmail(auths[a].email) :
                      auths' = [auths EXCEPT ![a].pc = "save", ![a].doc = uid,
                                             ![a].token = TokenOf(a)]
    /\ UNCHANGED users
    /\ AuthFrame

\* user.getResetPasswordToken() followed by user.save: the document holds the
\* hash of the new token and an expiry in the future
withResetToken(doc, token) ==
    [doc EXCEPT !.resetPasswordToken = Hash(token), !.resetPasswordExpire = "future"]

\* POST /forgot-password: user.save resolves, the email is being sent
ForgotSave ==
    /\ \E a \in Auths :
          /\ auths[a].kind = "forgot" /\ auths[a].pc = "save"
          /\ users' = [users EXCEPT ![auths[a].doc] = withResetToken(@, auths[a].token)]
          /\ auths' = [auths EXCEPT ![a].pc = "email"]
    /\ AuthFrame

\* POST /forgot-password: sendPasswordResetEmail resolves
ForgotEmailSent ==
    /\ \E a \in Auths :
          /\ auths[a].kind = "forgot" /\ auths[a].pc = "email"
          /\ AuthAnswers(a, 200, "If an account with that email exists, a password reset link has been sent.")
    /\ UNCHANGED users
    /\ AuthFrame

\* POST /forgot-password: sendPasswordResetEmail rejects, the fields are set to
\* undefined and user.save is called
ForgotEmailFails ==
    /\ \E a \in Auths :
          /\ auths[a].kind = "forgot" /\ auths[a].pc = "email"
          /\ auths' = [auths EXCEPT ![a].pc = "clear"]
    /\ UNCHANGED users
    /\ AuthFrame

\* mutant: the expiry alone is reset
withoutResetTokenExpiryOnly(doc) == [doc EXCEPT !.resetPasswordExpire = ""]

\* user.resetPasswordToken = undefined; user.resetPasswordExpire = undefined
withoutResetToken(doc) ==
    [doc EXCEPT !.resetPasswordToken = "", !.resetPasswordExpire = ""]

\* POST /forgot-password: the second user.save resolves
ForgotCleared ==
    /\ \E a \in Auths :
          /\ auths[a].kind = "forgot" /\ auths[a].pc = "clear"
          /\ users' = [users EXCEPT ![auths[a].doc] = withoutResetToken(@)]
          /\ AuthAnswers(a, 500, "Email could not be sent. Please try again later.")
    /\ AuthFrame

\* User.findOne({ resetPasswordToken, resetPasswordExpire: { $gt: Date.now() } })
UsersWithToken(hashed) ==
    {uid \in DOMAIN users : /\ users[uid].resetPasswordToken = hashed
                            /\ users[uid].resetPasswordExpire = "future"}

\* POST /reset-password/:token up to the resolution of User.findOne
ResetFind ==
    /\ \E a \in Auths :
          /\ auths[a].kind = "reset" /\ auths[a].pc = "start"
          /\ IF auths[a].password = ""
             THEN AuthAnswers(a, 400, "Please provide a new password")
             ELSE IF Len(auths[a].password) < 6
             THEN AuthAnswers(a, 400, "Password must be at least 6 characters")
             ELSE IF UsersWithToken(Hash(auths[a].token)) = {}
             THEN AuthAnswers(a, 400, "Invalid or expired reset token")
             ELSE \E uid \in UsersWithToken(Hash(auths[a].token)) :
                      auths' = [auths EXCEPT ![a].pc = "save", ![a].doc = uid]
    /\ UNCHANGED users
    /\ AuthFrame

\* user.password = password and the two fields set to undefined
afterReset(doc, password) == [withoutResetToken(doc) EXCEPT !.password = password]

\* POST /reset-password/:token: user.save resolves
ResetSave ==
    /\ \E a \in Auths :
          /\ auths[a].kind = "reset" /\ auths[a].pc = "save"
          /\ users' = [users EXCEPT ![auths[a].doc] = afterReset(@, auths[a].password)]
          /\ AuthAnswers(a, 200, "Password reset successful. You can now sign in with your new password.")
    /\ AuthFrame

\* time passes beyond the resetPasswordExpire of a user
TokenExpires ==
    /\ \E uid \in DOMAIN users :
          /\ users[uid].resetPasswordExpire = "future"
          /\ users' = [users EXCEPT ![uid].resetPasswordExpire = "past"]
    /\ UNCHANGED auths
    /\ AuthFrame

NextAuth ==
    \/ ForgotFind
    \/ ForgotSave
    \/ ForgotEmailSent
    \/ ForgotEmailFails
    \/ ForgotCleared
    \/ ResetFind
    \/ ResetSave
    \/ TokenExpires

SpecAuth == InitAuth /\ [][NextAuth]_vars

(***************************************************************************)
(* C1                                                                      *)
(***************************************************************************)
\* C1: a retryable provider error that recurs on all of attempts 0..3 ends the
\* invocation with ProviderBusy after four provider calls and no fifth.
C1_ExhaustedRetriesSurfaceProviderBusy ==
    \A error \in recurring :
        (RecurredOnAllAttempts(error) /\ HasRetrySignal(error))
            => /\ delivered = <<ProviderBusy>>
               /\ Len(Calls) = 4

(***************************************************************************)
(* C2                                                                      *)
(***************************************************************************)
\* the condition a provider error reports, when it reports exactly one of the
\* three and nothing about the API key
C2_Condition(error) ==
    IF ReportsApiKey(error) THEN {}
    ELSE IF ReportsQuota(error) /\ ~ReportsSafety(error) /\ ~ReportsMissingModel(error)
    THEN {QuotaExceeded}
    ELSE IF ReportsSafety(error) /\ ~ReportsQuota(error) /\ ~ReportsMissingModel(error)
    THEN {ContentBlocked}
    ELSE IF ReportsMissingModel(error) /\ ~ReportsQuota(error) /\ ~ReportsSafety(error)
    THEN {ModelUnavailable}
    ELSE {}

\* C2: a provider error on attempt 0 that reports quota exhaustion, a safety
\* block or a missing model ends the invocation at once: one provider call, no
\* backoff wait, and QuotaExceeded, ContentBlocked or ModelUnavailable surfaced.
C2_TerminalErrorsAreNotRetried ==
    \A error \in caught :
        (ProviderErrorCaught(error) /\ retryCount = 0 /\ C2_Condition(error) # {})
            => /\ pc = "done"
               /\ Len(Calls) = 1
               /\ Waits = <<>>
               /\ \A outcome \in C2_Condition(error) : delivered = <<outcome>>

(***************************************************************************)
(* C3                                                                      *)
(***************************************************************************)
Overloaded503(error) == error.message = {"503", "overloaded"}

\* C3: an invocation makes at most 4 provider calls (attempts 0..3 in order) and
\* at most 3 backoff waits, so at most 8 events (4 calls, 3 waits, 1 reply)
\* happen before it is done, whatever the provider answers; when every attempt
\* is answered with a "503 overloaded" error it is done after exactly 4 calls
\* and 3 retries with an error surfaced.
C3_AtMostFourCalls ==
    /\ retryCount \in 0..3
    /\ Len(Calls) <= 4
    /\ Len(Waits) <= 3
    /\ \A i \in 1..Len(Calls) : Calls[i].attempt = i - 1
    /\ Len(log) <= 8
    /\ \A error \in recurring :
          (pc = "done" /\ Overloaded503(error))
              => /\ Len(Calls) = 4
                 /\ Len(Waits) = 3
                 /\ Len(delivered) = 1
                 /\ delivered[1].kind = "error"

C3_Witness ==
    /\ pc = "done"
    /\ \E error \in recurring : Overloaded503(error)
    /\ Len(Calls) = 4
    /\ delivered = <<ProviderBusy>>

(***************************************************************************)
(* C4                                                                      *)
(***************************************************************************)
\* C4: every backoff wait directly follows the failed provider call of an
\* attempt n in 0..2 and lasts 2^n seconds (1 s, 2 s, 4 s in that order); the
\* next event after a wait is the provider call of attempt n + 1, and no wait
\* follows attempt 3.
C4_BackoffDelays ==
    /\ \A i \in 1..Len(log) :
          IsWait(log[i]) =>
              /\ i > 1
              /\ IsCall(log[i - 1])
              /\ log[i - 1].attempt = log[i].attempt
              /\ log[i].attempt \in 0..2
              /\ log[i].ms = CASE log[i].attempt = 0 -> 1000
                               [] log[i].attempt = 1 -> 2000
                               [] log[i].attempt = 2 -> 4000
              /\ i < Len(log) => /\ IsCall(log[i + 1])
                                 /\ log[i + 1].attempt = log[i].attempt + 1
    /\ \A i \in 1..Len(Waits) : Waits[i].ms = <<1000, 2000, 4000>>[i]
    /\ (pc = "backoff") <=> (Len(log) > 0 /\ IsWait(log[Len(log)]))
    /\ \A i \in 1..Len(log) :
          (IsCall(log[i]) /\ log[i].attempt = 3 /\ i < Len(log)) => ~IsWait(log[i + 1])

C4_Witness ==
    /\ pc = "done"
    /\ Len(Waits) = 3
    /\ \A i \in 1..3 : Waits[i].ms = <<1000, 2000, 4000>>[i]
    /\ \E error \in caught : HasRetrySignal(error)

(***************************************************************************)
(* C5                                                                      *)
(***************************************************************************)
\* C5: the provider call of attempt a uses MODELS[min(a div 2, M - 1)]: the
\* first model on attempts 0 and 1, the second on attempts 2 and 3, so an
\* invocation whose attempts all fail retryably calls A, A, B, B; the index
\* stays within 0..M-1 for every attempt number.
C5_ModelSelection ==
    /\ \A i \in 1..Len(Calls) :
          Calls[i].model = CASE Calls[i].attempt \in {0, 1} -> "gemini-2.5-flash"
                             [] Calls[i].attempt \in {2, 3} -> "gemini-2.0-flash"
    /\ Len(Calls) = 4 =>
          [i \in 1..4 |-> Calls[i].model] =
              <<"gemini-2.5-flash", "gemini-2.5-flash", "gemini-2.0-flash", "gemini-2.0-flash">>
    /\ \A a \in 0..(retryCount + 2 * Len(MODELS)) :
          /\ modelIndex(a) \in 0..(Len(MODELS) - 1)
          /\ modelIndex(a) = IF a < 2 * (Len(MODELS) - 1) THEN a \div 2 ELSE Len(MODELS) - 1

C5_Witness ==
    /\ pc = "done"
    /\ Len(Calls) = 4
    /\ Len(Waits) = 3
    /\ [i \in 1..4 |-> Calls[i].model] =
          <<"gemini-2.5-flash", "gemini-2.5-flash", "gemini-2.0-flash", "gemini-2.0-flash">>

(***************************************************************************)
(* C6                                                                      *)
(***************************************************************************)
InvalidHistory(history) ==
    Len(history) = 0 \/ history[Len(history)].role # "user"

\* the error an invalid history is reported with
InvalidHistoryOutcome(history) ==
    IF Len(history) = 0
    THEN FailedToGenerate({"No messages to process"})
    ELSE FailedToGenerate({"Last message must be from user"})

\* C6 as stated: an invocation with an empty history or a history whose last
\* role is not 'user' fails with InvalidHistory, with no provider call, no
\* backoff wait and no retry.
C6_InvalidHistoryFails ==
    (pc # "idle" /\ InvalidHistory(messages))
        => /\ pc = "done"
           /\ log = <<>>
           /\ retryCount = 0
           /\ delivered = <<InvalidHistoryOutcome(messages)>>

\* C6 as amended: such an invocation makes no provider call, no backoff wait
\* and no retry; it fails with InvalidHistory when GEMINI_API_KEY is set, and
\* with ConfigurationError when it is not.
C6_InvalidHistoryFailsAfterGetAI ==
    (pc # "idle" /\ InvalidHistory(messages))
        => /\ pc = "done"
           /\ log = <<>>
           /\ retryCount = 0
           /\ delivered = IF apiKey THEN <<InvalidHistoryOutcome(messages)>>
                                    ELSE <<ConfigurationError>>

C6_Witness ==
    /\ pc = "done"
    /\ Len(messages) > 0
    /\ messages[Len(messages)].role = "bot"
    /\ delivered = <<FailedToGenerate({"Last message must be from user"})>>

(***************************************************************************)
(* C7                                                                      *)
(***************************************************************************)
\* C7: every provider call is formed from the last 30 messages of a longer
\* history, in their order (29 prior turns, the 30th as the new message), and
\* from the whole history when it has 30 messages or fewer.
C7_Windowing ==
    \A i \in 1..Len(Calls) :
        LET n == Len(messages)
            dropped == IF n > 30 THEN n - 30 ELSE 0
            turns == Calls[i].history
        IN  /\ Len(turns) = n - dropped - 1
            /\ n > 30 => Len(turns) = 29
            /\ \A j \in 1..(n - dropped - 1) :
                  /\ turns[j].parts = <<messages[dropped + j].content>>
                  /\ (turns[j].role = "user") <=> (messages[dropped + j].role = "user")
            /\ Calls[i].message = messages[n].content

C7_Witness ==
    /\ Len(messages) > 30
    /\ Len(Calls) >= 2
    /\ Len(Calls[2].history) = 29
    /\ Calls[2].history[1].parts = <<Len(messages) - 29>>

(***************************************************************************)
(* C8                                                                      *)
(***************************************************************************)
\* the errors of the taxonomy, as the Error objects the caller can catch
Taxonomy ==
    {ConfigurationError, QuotaExceeded, ContentBlocked, ModelUnavailable, ProviderBusy}
        \cup {FailedToGenerate(m) : m \in ErrorMessages}
        \cup {FailedToGenerate({"No messages to process"}),
              FailedToGenerate({"Last message must be from user"})}

\* C8: the caller receives nothing while the invocation runs or waits between
\* attempts, whatever errors the attempts have caught, and exactly one
\* outcome when it is done: a provider text or one error of the taxonomy.
C8_OneTerminalOutcome ==
    /\ pc \in {"idle", "sending", "backoff"} => delivered = <<>>
    /\ pc = "done" =>
          /\ Len(delivered) = 1
          /\ \/ delivered[1] \in Taxonomy
             \/ \E text \in Texts : delivered[1] = [kind |-> "text", text |-> text, raw |-> {}]
          /\ delivered[1].kind = "error" => caught # {}

C8_Witness ==
    /\ pc = "done"
    /\ retryCount >= 1
    /\ Len(Waits) = retryCount
    /\ Len(delivered) = 1
    /\ delivered[1] \in Taxonomy

(***************************************************************************)
(* C9                                                                      *)
(***************************************************************************)
\* C9: the text of a successful provider call is what the caller receives,
\* unchanged, and that call is the last event of the invocation; for the
\* history [user: m] with no profile that succeeds at once, the log is one call
\* with the first model, no prior turns, the base instruction and message m,
\* followed by its reply.
C9_SuccessReturnsText ==
    /\ \A i \in 1..Len(log) :
          log[i].type = "reply" =>
              /\ i = Len(log)
              /\ i > 1
              /\ IsCall(log[i - 1])
              /\ log[i - 1].attempt = log[i].attempt
              /\ pc = "done"
              /\ delivered = <<[kind |-> "text", text |-> log[i].text, raw |-> {}]>>
    /\ (pc = "done" /\ delivered # <<>> /\ delivered[1].kind = "text") =>
          /\ log[Len(log)].type = "reply"
          /\ Len(Calls) = retryCount + 1
    /\ ( /\ pc = "done"
         /\ retryCount = 0
         /\ messages = <<[role |-> "user", content |-> 1]>>
         /\ user = NoUser
         /\ delivered # <<>>
         /\ delivered[1].kind = "text" ) =>
          /\ Len(log) = 2
          /\ log[1] = [type |-> "call", attempt |-> 0, model |-> "gemini-2.5-flash",
                       history |-> <<>>, systemInstruction |-> <<SYSTEM_PROMPT>>,
                       message |-> 1]

C9_Witness ==
    /\ pc = "done"
    /\ retryCount = 0
    /\ messages = <<[role |-> "user", content |-> 1]>>
    /\ user = NoUser
    /\ delivered = <<[kind |-> "text", text |-> "text A", raw |-> {}]>>
    /\ Len(Calls) = 1

(***************************************************************************)
(* C10                                                                     *)
(***************************************************************************)
\* a provider error with no retryable signal and no pattern of the taxonomy
Unmatched(error) ==
    /\ (IF error.status # 0 THEN error.status ELSE error.statusCode) \notin {503, 429}
    /\ error.message \cap {"503", "429", "overloaded", "UNAVAILABLE", "rate limit"} = {}
    /\ ~ReportsApiKey(error)
    /\ ~ReportsQuota(error)
    /\ ~ReportsSafety(error)
    /\ ~ReportsMissingModel(error)

\* C10 as stated: a provider error that matches no retryable signal and no
\* taxonomy pattern ends the invocation with exactly one provider call made and
\* UnknownProviderError carrying the raw message.
C10_UnmatchedErrorOneCall ==
    \A error \in caught :
        (ProviderErrorCaught(error) /\ Unmatched(error))
            => /\ pc = "done"
               /\ Len(Calls) = 1
               /\ delivered = <<FailedToGenerate(error.message)>>

\* C10 as amended: such an error is never retried: the call it answers is the
\* last event of the invocation (the only provider call when it answers
\* attempt 0, with no backoff wait), and UnknownProviderError carrying the raw
\* message is surfaced.
C10_UnmatchedErrorNotRetried ==
    \A error \in caught :
        (ProviderErrorCaught(error) /\ Unmatched(error))
            => /\ pc = "done"
               /\ IsCall(log[Len(log)])
               /\ log[Len(log)].attempt = retryCount
               /\ Len(Calls) = retryCount + 1
               /\ retryCount = 0 => (Len(Calls) = 1 /\ Waits = <<>>)
               /\ delivered = <<FailedToGenerate(error.message)>>

C10_Witness ==
    /\ pc = "done"
    /\ retryCount = 2
    /\ Len(Calls) = 3
    /\ \E error \in caught : ProviderErrorCaught(error) /\ Unmatched(error)
    /\ delivered = <<FailedToGenerate({"other text"})>>

(***************************************************************************)
(* C11                                                                     *)
(***************************************************************************)
HasInterests(u) == ~u.isNull /\ Len(u.interests) > 0

HasPersona(u) == ~u.isNull /\ \E i \in 1..Len(u.persona) : u.persona[i] # " "

\* C11: the system instruction is the base text alone for a null profile;
\* otherwise it is the base text, then (if there are interests) the interests
\* clause with the tags in their order joined by ", ", then (if the persona is
\* not blank) the persona clause with the persona verbatim, in that order and
\* with nothing else.
C11_PromptAssembly ==
    prompt # <<>> =>
        LET n == Len(user.interests)
            nI == IF HasInterests(user) THEN 2 * n + 1 ELSE 0
            nP == IF HasPersona(user) THEN 1 + Len(user.persona) ELSE 0
        IN  /\ Len(prompt) = 1 + nI + nP
            /\ prompt[1] = "SYSTEM_PROMPT"
            /\ user.isNull => prompt = <<"SYSTEM_PROMPT">>
            /\ HasInterests(user) =>
                  /\ prompt[2] = "# USER'S INTERESTS: This user is particularly interested in: "
                  /\ \A k \in 1..n : prompt[2 * k + 1] = user.interests[k]
                  /\ \A k \in 1..(n - 1) : prompt[2 * k + 2] = ", "
                  /\ prompt[2 * n + 2] =
                        ". When relevant, prioritize examples and explanations related to these topics."
            /\ HasPersona(user) =>
                  /\ prompt[nI + 2] = "# USER'S CUSTOM INSTRUCTIONS: "
                  /\ \A j \in 1..Len(user.persona) : prompt[nI + 2 + j] = user.persona[j]

C11_Witness ==
    /\ prompt # <<>>
    /\ user.interests = <<"graphs", "OS">>
    /\ user.persona = <<" ", "a", " ">>
    /\ Len(prompt) = 10

(***************************************************************************)
(* C12                                                                     *)
(***************************************************************************)
\* C12: while GEMINI_API_KEY is unset no client is ever constructed or stored,
\* and every invocation is done at once with ConfigurationError, without a
\* provider call, a backoff wait or a retry, whatever its history.
C12_MissingCredentials ==
    ~apiKey =>
        /\ ~ai
        /\ constructions = 0
        /\ pc \in {"idle", "done"}
        /\ pc = "done" =>
              /\ log = <<>>
              /\ retryCount = 0
              /\ delivered =
                    <<[kind |-> "error",
                       text |-> "Invalid or missing Gemini API key. Please check your configuration.",
                       raw  |-> {}]>>

C12_Witness ==
    /\ ~apiKey
    /\ ~ai
    /\ pc = "done"
    /\ Len(given) = 1
    /\ given[1].role = "user"
    /\ delivered = <<ConfigurationError>>


(***************************************************************************)
(* Views of the chat route                                                 *)
(***************************************************************************)
\* generateResponse has returned or thrown for request r
GenerationOver(r) == reqs[r].pc \in {"saveBot", "saveChat", "done"} /\ reqs[r].userMessage # 0

\* the document of the Message collection with this _id is such a message
Stored(id, role, content) ==
    \E i \in 1..Len(store) :
        /\ store[i].id = id
        /\ store[i].chatId = TheChat
        /\ store[i].role = role
        /\ store[i].content = content

BotMessages == SelectSeq(store, LAMBDA m : m.role = "bot")

PriorBotMessages == SelectSeq(store, LAMBDA m : m.role = "bot" /\ m.content \notin Texts)

(***************************************************************************)
(* C13  In POST /api/chat/:id/message both new records of a request, the   *)
(* user message and the assistant message, are persisted after generation: *)
(* no record of the request is in storage before generateResponse has      *)
(* returned.  As stated this does not hold: the user message is created    *)
(* before the history is read.                                             *)
(***************************************************************************)
C13_NothingStoredBeforeGeneration ==
    \A r \in Reqs :
        ~GenerationOver(r) =>
            /\ reqs[r].userMessage = 0
            /\ reqs[r].botMessage = 0
            /\ ~\E i \in 1..Len(store) : store[i].content = ContentOf(r)

(***************************************************************************)
(* C13, amended  The user message of a request is persisted before         *)
(* generateResponse is called and stays whatever the outcome; the          *)
(* assistant message is persisted only after generateResponse has returned *)
(* a text, holds that text with role 'bot', and is never written for a     *)
(* request whose generation threw.                                         *)
(***************************************************************************)
C13_OnlyAssistantMessageAfterGeneration ==
    /\ \A r \in Reqs :
          /\ reqs[r].pc \in {"findChat", "create"} =>
                reqs[r].userMessage = 0 /\ reqs[r].botMessage = 0
          /\ reqs[r].pc \in {"find", "generating", "saveBot", "saveChat"}
                \/ reqs[r].status \in {200, 500} =>
                Stored(reqs[r].userMessage, "user", reqs[r].content)
          /\ reqs[r].pc \in {"find", "generating", "saveBot"} \/ reqs[r].status = 500 =>
                reqs[r].botMessage = 0
          /\ reqs[r].pc = "saveChat" \/ reqs[r].status = 200 =>
                /\ reqs[r].aiResponse \in Texts
                /\ reqs[r].botMessage > reqs[r].userMessage
                /\ Stored(reqs[r].botMessage, "bot", reqs[r].aiResponse)
    /\ Len(BotMessages) =
          Len(PriorBotMessages) + Cardinality({r \in Reqs : reqs[r].botMessage # 0})

C13_Witness ==
    \E r1, r2 \in Reqs :
        /\ reqs[r1].status = 200
        /\ Stored(reqs[r1].botMessage, "bot", reqs[r1].aiResponse)
        /\ reqs[r2].status = 500
        /\ Stored(reqs[r2].userMessage, "user", reqs[r2].content)
        /\ reqs[r2].botMessage = 0

(***************************************************************************)
(* C19  For every POST /api/chat/:id/message request, also when requests   *)
(* on the same chat interleave, the history passed to generateResponse     *)
(* ends with the user message this request has just saved: its last role   *)
(* is 'user' and its last content is the request's own.                    *)
(***************************************************************************)
C19_HistoryEndsWithOwnMessage ==
    \A r \in Reqs :
        reqs[r].pc = "generating" =>
            LET existingMessages == reqs[r].existingMessages
                last == existingMessages[Len(existingMessages)]
            IN  /\ Len(existingMessages) > 0
                /\ last.id = reqs[r].userMessage
                /\ last.role = "user"
                /\ last.content = reqs[r].content


(***************************************************************************)
(* C15  The prior turns sent to the provider are the windowed messages     *)
(* except the last, in the same order and with the same content, role      *)
(* 'user' kept and the assistant's role (stored as 'bot') mapped to        *)
(* 'model'; their number is the windowed length minus one.                 *)
(***************************************************************************)
C15_HistoryConversion ==
    \A i \in 1..Len(Calls) :
        LET windowed == trimChatHistory(given)
            turns == Calls[i].history
        IN  /\ Len(turns) = Len(windowed) - 1
            /\ \A j \in 1..Len(turns) :
                  /\ turns[j].parts = <<windowed[j].content>>
                  /\ windowed[j].role = "user" => turns[j].role = "user"
                  /\ windowed[j].role = "bot" => turns[j].role = "model"

C15_Witness ==
    /\ Len(Calls) >= 1
    /\ Len(given) > MAX_HISTORY_MESSAGES
    /\ Len(Calls[1].history) = MAX_HISTORY_MESSAGES - 1
    /\ \E j, k \in 1..Len(Calls[1].history) :
          /\ Calls[1].history[j].role = "user"
          /\ Calls[1].history[k].role = "model"

(***************************************************************************)
(* C16  generateResponse does not mutate the history it is given and       *)
(* writes nothing to storage: during and after any invocation, successful  *)
(* or failed, with any number of retries, the caller's message sequence    *)
(* has the length, order and contents it had before the call.              *)
(***************************************************************************)
C16_HistoryNotMutated ==
    /\ pc # "idle" => messages = given
    /\ store = <<>>

C16_Witness ==
    /\ pc = "done"
    /\ Len(given) > MAX_HISTORY_MESSAGES
    /\ Len(Calls) = MAX_RETRIES + 1
    /\ messages = given

(***************************************************************************)
(* C20  Every retry of one invocation sends the provider the same prior    *)
(* turns, the same system instruction and the same new user message as     *)
(* attempt 0; only the selected model may differ between attempts.         *)
(***************************************************************************)
C20_RetriesSendTheSame ==
    \A i \in 1..Len(Calls) :
        /\ Calls[i].history = Calls[1].history
        /\ Calls[i].systemInstruction = Calls[1].systemInstruction
        /\ Calls[i].message = Calls[1].message

C20_Witness ==
    /\ Len(Calls) = MAX_RETRIES + 1
    /\ Calls[1].model # Calls[MAX_RETRIES + 1].model
    /\ ~user.isNull
    /\ Len(Calls[1].history) >= 1


(***************************************************************************)
(* C14  Retry state is per invocation: the first provider call of every    *)
(* top-level invocation uses attempt 0 and the first model of the list,    *)
(* whatever the outcomes of earlier or concurrently running invocations.   *)
(***************************************************************************)
C14_FreshRetryBudget ==
    \A n \in Invs :
        /\ Len(invs[n].calls) >= 1 =>
              /\ invs[n].calls[1].attempt = 0
              /\ invs[n].calls[1].model = MODELS[1]
        /\ Len(invs[n].calls) <= MAX_RETRIES + 1

C14_Witness ==
    \E n, k \in Invs :
        /\ invs[n].previous = "exhausted"
        /\ invs[n].pc = "sending"
        /\ invs[n].calls = <<[attempt |-> 0, model |-> MODELS[1]]>>
        /\ invs[k].pc = "sending"
        /\ invs[k].retryCount = MAX_RETRIES
        /\ invs[k].calls[Len(invs[k].calls)].model = MODELS[2]

(***************************************************************************)
(* C17  The provider client is constructed at most once per process:       *)
(* across sequential and interleaved invocations and their retries, with   *)
(* credentials present the first use creates the client and every later    *)
(* attempt reuses it without writing to _ai; without credentials it is     *)
(* never created and no call is made.                                      *)
(***************************************************************************)
C17_ClientConstructedOnce ==
    /\ constructions <= 1
    /\ ai <=> constructions = 1
    /\ ~apiKey => ~ai
    /\ \A n \in Invs :
          (Len(invs[n].calls) >= 1 \/ invs[n].previous \in {"text", "exhausted"}) => ai

C17_Witness ==
    /\ constructions = 1
    /\ \E n, k \in Invs :
          /\ n # k
          /\ invs[n].previous # "none"
          /\ Len(invs[n].calls) >= 2
          /\ Len(invs[k].calls) >= 2

(***************************************************************************)
(* C18  An invocation waiting in a backoff delay does not block the        *)
(* others: while it is suspended, an invocation that is idle can be        *)
(* started, one that awaits the provider can receive its answer and        *)
(* complete; and each attempt makes exactly one provider round-trip.       *)
(***************************************************************************)
C18_BackoffDoesNotBlock ==
    \A n \in Invs :
        /\ invs[n].pc = "backoff" =>
              \A k \in Invs \ {n} :
                  /\ invs[k].pc = "idle" => ENABLED ConcInvokeOf(k)
                  /\ invs[k].pc = "sending" => ENABLED ConcProviderSuccessOf(k)
        /\ \A i \in 1..Len(invs[n].calls) : invs[n].calls[i].attempt = i - 1
        /\ invs[n].replies = Len(invs[n].calls) - (IF invs[n].pc = "sending" THEN 1 ELSE 0)

C18_Witness ==
    \E n, k \in Invs :
        /\ invs[n].pc = "backoff"
        /\ n \in invs[k].suspended
        /\ invs[k].pc = "done"
        /\ invs[k].outcome = <<Returned("text A")>>
        /\ invs[k].replies = 1


(***************************************************************************)
(* C21  When the text of a surfaced error matches several patterns of the  *)
(* taxonomy, the reported condition follows a strict precedence:           *)
(* ConfigurationError ('API key'/'API_KEY'), then QuotaExceeded ('quota'), *)
(* then ContentBlocked ('safety'/'SAFETY'), then ModelUnavailable          *)
(* ('not found'/'404'), then ProviderBusy (status 503 or 'overloaded'),    *)
(* then UnknownProviderError; the condition depends on the error alone.    *)
(***************************************************************************)
ReportsBusy(error) == error.status = 503 \/ "overloaded" \in error.message

\* the rank of the first pattern of the precedence that the error matches
Rank(error) ==
    IF ReportsApiKey(error) THEN 1
    ELSE IF ReportsQuota(error) THEN 2
    ELSE IF ReportsSafety(error) THEN 3
    ELSE IF ReportsMissingModel(error) THEN 4
    ELSE IF ReportsBusy(error) THEN 5
    ELSE 6

Conditions ==
    <<ConfigurationError, QuotaExceeded, ContentBlocked, ModelUnavailable, ProviderBusy>>

C21_TranslationPrecedence ==
    pc = "done" /\ caught # {} =>
        \A error \in caught :
            /\ Len(delivered) = 1
            /\ Rank(error) <= 5 => delivered[1] = Conditions[Rank(error)]
            /\ Rank(error) = 6 =>
                  delivered[1] = [kind |-> "error", text |-> "Failed to generate response: ",
                                  raw |-> error.message]

\* errors whose text matches two patterns of different rank have surfaced, among
\* them one that was retried before
C21_Witness ==
    /\ pc = "done"
    /\ \E error \in caught :
          /\ ReportsQuota(error)
          /\ ReportsBusy(error)
          /\ "overloaded" \in error.message
          /\ retryCount = MAX_RETRIES
          /\ delivered = <<QuotaExceeded>>


(***************************************************************************)
(* C22  When generateResponse fails inside POST /api/chat/:id/message the  *)
(* request answers 500 with the error's message, the user message saved by *)
(* the request stays in storage with no assistant message stored for it,   *)
(* and the step leaves the chat's title as it was.                         *)
(***************************************************************************)
\* the step in which generateResponse throws into the catch of request r
GenerationFails(r) == reqs[r].pc = "generating" /\ reqs'[r].status = 500

FailedGenerationAnswered ==
    \A r \in Reqs :
        reqs[r].status = 500 =>
            /\ reqs[r].pc = "done"
            /\ \E outcome \in generateOutcomes(reqs[r].existingMessages) :
                  /\ outcome.kind = "error"
                  /\ reqs[r].body = [text |-> outcome.text, raw |-> outcome.raw]
            /\ Stored(reqs[r].userMessage, "user", reqs[r].content)
            /\ reqs[r].botMessage = 0
            /\ reqs[r].aiResponse = ""
            /\ chats[TheChat].title # reqs[r].content

C22_FailedGeneration ==
    /\ []FailedGenerationAnswered
    /\ [][\A r \in Reqs : GenerationFails(r) => chats' = chats /\ store' = store]_vars

C22_Witness ==
    \E r \in Reqs :
        /\ reqs[r].status = 500
        /\ reqs[r].body.text = "AI service is currently busy. Please try again in a moment."
        /\ Len(reqs[r].existingMessages) <= 1
        /\ chats[TheChat].title = "New Chat"
        /\ Stored(reqs[r].userMessage, "user", reqs[r].content)
        /\ Len(BotMessages) = 0


(***************************************************************************)
(* C23  Chat routes are owner-isolated: GET, POST message, PUT and DELETE  *)
(* on /api/chat/:id by a user who is not the chat's userId answer 404,     *)
(* disclose nothing and leave the chat, its title and its messages as they *)
(* were; GET /api/chat lists only the requester's chats.                   *)
(***************************************************************************)
Stranger(o) == ops[o].kind \in {"get", "put", "delete"} /\ ops[o].userId # Owner(ops[o].chatId)

StrangerPosting(r) == reqs[r].userId # Owner(TheChat)

StrangersAnswered ==
    /\ \A o \in Ops :
          /\ Stranger(o) =>
                /\ ops[o].pc \in {"start", "done"}
                /\ ops[o].pc = "done" => ops[o].status = 404
                /\ ops[o].disclosed = {}
          /\ ops[o].kind = "list" =>
                \A c \in ops[o].disclosed : Owner(c) = ops[o].userId
    /\ \A r \in Reqs :
          StrangerPosting(r) /\ reqs[r] # NotIssued =>
              /\ reqs[r].pc \in {"findChat", "done"}
              /\ reqs[r].pc = "done" => reqs[r].status = 404
              /\ reqs[r].userMessage = 0
              /\ reqs[r].botMessage = 0
              /\ reqs[r].existingMessages = <<>>

StrangersChangeNothing ==
    /\ \A o \in Ops :
          Stranger(o) /\ ops'[o] # ops[o] => chats' = chats /\ store' = store
    /\ \A r \in Reqs :
          StrangerPosting(r) /\ reqs'[r] # reqs[r] => chats' = chats /\ store' = store

C23_OwnerIsolation ==
    /\ []StrangersAnswered
    /\ [][StrangersChangeNothing]_vars

C23_Witness ==
    /\ \E o1, o2 \in Ops :
          /\ Stranger(o1) /\ ops[o1].kind = "put" /\ ops[o1].status = 404
          /\ Stranger(o2) /\ ops[o2].kind = "delete" /\ ops[o2].status = 404
    /\ StrangerPosting(1) /\ reqs[1].status = 404
    /\ store = InitialStore
    /\ chats[TheChat].title = "New Chat"


(***************************************************************************)
(* C24  Every stored message belongs to an existing chat: once DELETE      *)
(* /api/chat/:id or DELETE /api/auth/account has answered success, no      *)
(* message with the id of a chat it deleted remains in storage, whatever   *)
(* the interleaving with a POST /api/chat/:id/message on the same chat.    *)
(***************************************************************************)
\* the chats a request that has answered success has deleted
DeletedBy(o) ==
    IF ops[o].status # 200 THEN {}
    ELSE IF ops[o].kind = "delete" THEN {ops[o].chatId}
    ELSE IF ops[o].kind = "account" THEN ops[o].found
    ELSE {}

C24_NoMessageOfADeletedChat ==
    \A o \in Ops :
        \A i \in 1..Len(store) :
            /\ store[i].chatId \notin DeletedBy(o)
            /\ store[i].chatId \in DOMAIN chats


(***************************************************************************)
(* C25  A password-reset token is single-use and never left dangling:      *)
(* after a successful POST /reset-password/:token the stored token and     *)
(* expiry are cleared, so a second use of the same token answers 400       *)
(* 'Invalid or expired reset token'; and when sending the email fails in   *)
(* POST /forgot-password, the token and expiry set by that request are     *)
(* cleared before the 500 response.                                        *)
(***************************************************************************)
\* the tokens with which a reset has answered success
UsedTokens == {auths[a].token : a \in {b \in Auths : auths[b].kind = "reset" /\ auths[b].status = 200}}

\* the tokens of the forgot-password requests that answered 500
UnsentTokens == {auths[a].token : a \in {b \in Auths : auths[b].kind = "forgot" /\ auths[b].status = 500}}

ValidPassword(a) == auths[a].password # "" /\ Len(auths[a].password) >= 6

TokensCleared ==
    /\ \A uid \in DOMAIN users :
          /\ \A token \in UsedTokens \cup UnsentTokens :
                users[uid].resetPasswordToken # Hash(token)
          /\ users[uid].resetPasswordToken = "" <=> users[uid].resetPasswordExpire = ""
    /\ \A a \in Auths :
          /\ auths[a].kind = "reset" /\ auths[a].status = 200 =>
                users[auths[a].doc].password = auths[a].password
          /\ auths[a].kind = "forgot" /\ auths[a].status = 500 =>
                auths[a].body = "Email could not be sent. Please try again later."

\* a reset that looks its token up after a reset with that token has succeeded
SecondUseRefused ==
    \A a \in Auths :
        /\ auths[a].kind = "reset"
        /\ auths[a].pc = "start"
        /\ auths[a].token \in UsedTokens
        /\ auths'[a] # auths[a]
        => /\ auths'[a].status = 400
           /\ ValidPassword(a) => auths'[a].body = "Invalid or expired reset token"
           /\ users' = users

====
